---- MODULE Spec2Model ----
(***************************************************************************)
(* Model of the snowpack plugin "ts-es-karma" (src/src/index.ts, the       *)
(* revision at lines 345-661, and its lint worker src/src/eslint.ts).      *)
(*                                                                         *)
(* The plugin is a set of callbacks run on node's single-threaded event    *)
(* loop: every action below is one callback run to completion.  The        *)
(* TypeScript watch service, the snowpack dev server, the file system, the *)
(* karma server and the process signals are the environment: they choose   *)
(* which callback runs next and with which input.  The eslint worker is    *)
(* a second thread that exchanges messages with the main thread.           *)
(*                                                                         *)
(* Strings that the code computes with (paths) are tuples of one-character *)
(* strings, so that String.replace and path.join are computed, not assumed.*)
(***************************************************************************)
EXTENDS Integers, Sequences, FiniteSets, TLC

\* ----- bounds of the model ------------------------------------------------
MaxRounds == 2          \* createProgram calls explored
MaxJobs == 3            \* http requests issued by outputFileForKarma
MaxCallbacks == 3       \* callbacks held by the watch map

\* ----- paths ----------------------------------------------------------------
Sep == <<"/">>
RootDir == <<"/", "r">>
OutDir == <<"/", "r", "/", "o">>
KarmaRoot == <<"/", "r", "/", "t">>
FileA == <<"/", "r", "/", "o", "/", "a">>
FileB == <<"/", "r", "/", "o", "/", "b">>
Files == {FileA, FileB}
NoPath == << >>
SrcA == <<"/", "s", "/", "a">>
SrcB == <<"/", "s", "/", "b">>
WatchPaths == {SrcA, SrcB}
OutDirOptions == {NoPath, OutDir}

Range(s) == {s[i] : i \in DOMAIN s}

\* String.prototype.indexOf on tuples of characters; -1 when absent
IndexOf(s, sub) ==
    LET hits == {i \in 0..(Len(s) - Len(sub)) : SubSeq(s, i + 1, i + Len(sub)) = sub}
    IN IF hits = {} THEN -1 ELSE CHOOSE i \in hits : \A k \in hits : i <= k

ReplaceFirstMutKeeps(s, sub) == s

\* file.replace(absBuildDir, ''): the first occurrence is removed
ReplaceFirst(s, sub) ==
    LET i == IndexOf(s, sub)
    IN IF i < 0 THEN s ELSE SubSeq(s, 1, i) \o SubSeq(s, i + Len(sub) + 1, Len(s))

\* path.join(karmaOutput, file) for a normalised root
PathJoin(root, file) ==
    IF Len(file) > 0 /\ file[1] = "/" THEN root \o file ELSE root \o Sep \o file

\* one observable effect of a handler: a log line, a call or a message
E(k, a) == [k |-> k, a |-> a]

Modes == {"never", "force", "normal"}
StartCodes == {6031, 6032}
DoneCodes == {6193, 6194}
ErrorCategory == 1
Categories == {0, 1, 3}

VARIABLES
    pc,                 \* "loaded", "watching", "failed", "exited"
    isDev,              \* run({isDev}) and not a 'build' command line
    tsconfigExists,     \* ts.sys.fileExists(tsconfig)
    mode,               \* opt.eslintRun || 'normal'
    karmaOutput,        \* karmaOutput is a path (TRUE) or false
    karmaDisable,       \* opt.karmaDisable
    watched,            \* Record<string, Function[]>
    nextCb,             \* next fresh callback identity
    closed,             \* callbacks whose FileWatcher handle was closed
    status,             \* enum Status
    absBuildDir,
    pendingWriteFiles,  \* keys of the record, in insertion order
    jobs,               \* http requests issued by outputFileForKarma
    staged,             \* files written below karmaOutput
    startKarmaServer,   \* TRUE when the variable holds the function
    timer,              \* pending setTimeout callbacks of startKarmaServer
    karma,              \* "none", "created", "started", "stopped"
    karmaStarts,        \* calls of karma.start()
    sigintHandler,      \* process.on('SIGINT') installed
    nextResolve,        \* index into promises, 0 when undefined
    promises,           \* promises returned by the eslint executor, in call order
    toWorker,           \* 'run' messages in flight to the worker
    linting,            \* lintFiles calls in progress in the worker
    fromWorker,         \* 'done' messages in flight to the main thread
    lintSettled,        \* lintFiles calls that have settled in the worker
    donesPosted,        \* 'done' messages the worker has posted
    runResolved,        \* the promise returned by run() is resolved
    tsPhase,            \* the watch service: "idle" or "checking"
    rounds,             \* createProgram calls so far
    roundErr,           \* an error diagnostic came since createProgram
    roundIntents,       \* files written since createProgram
    dupIntent,          \* one of them was written more than once
    lastOk,             \* outcome of the last completed round: "none", "ok", "failed"
    effects             \* what the last handler did, in order

vars == <<pc, isDev, tsconfigExists, mode, karmaOutput, karmaDisable, watched,
          nextCb, closed, status, absBuildDir, pendingWriteFiles, jobs, staged,
          startKarmaServer, timer, karma, karmaStarts, sigintHandler,
          nextResolve, promises, toWorker, linting, fromWorker, lintSettled,
          donesPosted, runResolved, tsPhase, rounds, roundErr, roundIntents, dupIntent, lastOk, effects>>

configVars == <<isDev, tsconfigExists, mode>>
routerVars == <<watched, nextCb, closed>>
checkVars == <<status, absBuildDir, pendingWriteFiles>>
publishVars == <<jobs, staged>>
karmaVars == <<startKarmaServer, timer, karma, karmaStarts, sigintHandler>>
lintVars == <<nextResolve, promises, toWorker, linting, fromWorker, lintSettled,
              donesPosted, runResolved>>
roundVars == <<tsPhase, rounds, roundErr, roundIntents, dupIntent, lastOk>>

\* ----- plugin factory (index.ts 345-372, 620) ------------------------------
Init ==
    /\ pc = "loaded"
    /\ isDev \in BOOLEAN
    /\ tsconfigExists \in BOOLEAN
    /\ mode \in Modes
    /\ karmaOutput \in BOOLEAN
    /\ karmaDisable \in BOOLEAN
    /\ watched = << >>
    /\ nextCb = 1
    /\ closed = {}
    /\ status = "Done"
    /\ absBuildDir = RootDir \o Sep
    /\ pendingWriteFiles = << >>
    /\ jobs = << >>
    /\ staged = << >>
    /\ startKarmaServer = FALSE
    /\ timer = 0
    /\ karma = "none"
    /\ karmaStarts = 0
    /\ sigintHandler = FALSE
    /\ nextResolve = 0
    /\ promises = << >>
    /\ toWorker = 0
    /\ linting = 0
    /\ fromWorker = 0
    /\ lintSettled = 0
    /\ donesPosted = 0
    /\ runResolved = FALSE
    /\ tsPhase = "idle"
    /\ rounds = 0
    /\ roundErr = FALSE
    /\ roundIntents = {}
    /\ dupIntent = FALSE
    /\ lastOk = "none"
    /\ effects = << >>

\* ----- change router (index.ts 349-370) ------------------------------------
\* A callback is an identity and what it does when called: "ok" returns,
\* "throws" raises, "rewatch" calls ts.sys.watchFile for the same file again.
CallbackKinds == {"ok", "throws", "rewatch"}

Registered(w) == {f \in DOMAIN w : Len(w[f]) > 0}

RECURSIVE CountCallbacks(_, _)
CountCallbacks(w, fs) ==
    IF fs = {} THEN 0
    ELSE LET f == CHOOSE x \in fs : TRUE
         IN Len(w[f]) + CountCallbacks(w, fs \ {f})

\* the body of addWatched (353-356): the map after the push
Push(w, file, cb) ==
    [f \in DOMAIN w \cup {file} |->
        IF f = file
        THEN (IF file \in DOMAIN w THEN Append(w[file], cb) ELSE <<cb>>)
        ELSE w[f]]

\* what one callback call does to the map: a "rewatch" callback registers a
\* fresh callback for the file while the loop of onChanged is running
AfterCall(w, file, cb, n) ==
    IF cb.kind = "rewatch" /\ CountCallbacks(w, DOMAIN w) < MaxCallbacks
    THEN [watched |-> Push(w, file, [id |-> n, kind |-> "ok"]), nextCb |-> n + 1]
    ELSE [watched |-> w, nextCb |-> n]

RECURSIVE NotifyLoopMutStopsOnThrow(_, _, _, _)
NotifyLoopMutStopsOnThrow(w, file, i, n) ==
    IF i > Len(w[file]) THEN [watched |-> w, nextCb |-> n, effects |-> << >>]
    ELSE LET cb == w[file][i]
             ac == AfterCall(w, file, cb, n)
             rest == NotifyLoopMutStopsOnThrow(ac.watched, file, i + 1, ac.nextCb)
             call == <<[k |-> "callback", a |-> file, cb |-> cb.id]>>
         IN IF cb.kind = "throws"
            THEN [watched |-> w, nextCb |-> n,
                  effects |-> call \o <<E("error:Failed to execute typescript-watcher", file)>>]
            ELSE [watched |-> rest.watched, nextCb |-> rest.nextCb,
                  effects |-> call \o rest.effects]

RECURSIVE NotifyLoop(_, _, _, _)
\* the for-of loop of onChanged (362-368) from index i on; the array iterator
\* reads the live array, so elements pushed during the loop are visited
NotifyLoop(w, file, i, n) ==
    IF i > Len(w[file]) THEN [watched |-> w, nextCb |-> n, effects |-> << >>]
    ELSE LET cb == w[file][i]
             ac == AfterCall(w, file, cb, n)
             rest == NotifyLoop(ac.watched, file, i + 1, ac.nextCb)
             call == <<[k |-> "callback", a |-> file, cb |-> cb.id]>>
             caught == IF cb.kind = "throws"
                       THEN <<E("error:Failed to execute typescript-watcher", file)>>
                       ELSE << >>
         IN [watched |-> rest.watched, nextCb |-> rest.nextCb,
             effects |-> call \o caught \o rest.effects]

NotifyMutLogsUnwatched(w, file, n) ==
    IF file \in DOMAIN w
    THEN NotifyLoop(w, file, 1, n)
    ELSE [watched |-> w, nextCb |-> n,
          effects |-> <<E("error:Failed to execute typescript-watcher", file)>>]

\* onChanged(file) (360-370)
Notify(w, file, n) ==
    IF file \in DOMAIN w
    THEN NotifyLoop(w, file, 1, n)
    ELSE [watched |-> w, nextCb |-> n, effects |-> << >>]

\* ----- test-server lifecycle (index.ts 412-443) ----------------------------
InitKarmaMutIgnoresDisable(ko, kd) ==
    IF ~ko
    THEN [start |-> FALSE, karma |-> "none", sigint |-> FALSE,
          effects |-> <<E("info:Karma Disabled", NoPath)>>]
    ELSE [start |-> TRUE, karma |-> "created", sigint |-> TRUE,
          effects |-> <<E("debug:Start karma", NoPath)>>]

\* initKarma(): the values of <<startKarmaServer, karma, sigintHandler>> after
\* the call and what it logs
InitKarma(ko, kd) ==
    IF ~ko \/ kd
    THEN [start |-> FALSE, karma |-> "none", sigint |-> FALSE,
          effects |-> <<E("info:Karma Disabled", NoPath)>>]
    ELSE [start |-> TRUE, karma |-> "created", sigint |-> TRUE,
          effects |-> <<E("debug:Start karma", NoPath)>>]

RunMutIgnoresMissingTsconfig ==
    /\ pc = "loaded"
    /\ LET build == ~isDev
           ko == IF build THEN FALSE ELSE karmaOutput
           kd == IF build THEN TRUE ELSE karmaDisable
           ik == InitKarmaMutIgnoresDisable(ko, FALSE)
       IN /\ karmaOutput' = ko
          /\ karmaDisable' = kd
          /\ pc' = "watching"
          /\ effects' = <<E("debug:Setup typescript", NoPath)>> \o ik.effects
          /\ startKarmaServer' = ik.start
          /\ karma' = ik.karma
          /\ sigintHandler' = ik.sigint
          /\ UNCHANGED <<timer, karmaStarts>>
    /\ UNCHANGED <<configVars, routerVars, checkVars, publishVars, lintVars, roundVars>>

\* ----- run({isDev}) (index.ts 629-654) -------------------------------------
\* The body of the promise executor runs after one microtask; nothing else can
\* run in between, so run() up to the return of initKarma() is one step.
\* initTypescript() (447-452) throws when the tsconfig file is missing, which
\* leaves the executor before initKarma() and before createWatchProgram().
Run ==
    /\ pc = "loaded"
    /\ LET build == ~isDev
           ko == IF build THEN FALSE ELSE karmaOutput
           kd == IF build THEN TRUE ELSE karmaDisable
           ik == InitKarma(ko, kd)
           first == IF build THEN E("debug:start in build mode", NoPath)
                             ELSE E("debug:start in dev mode", NoPath)
       IN /\ karmaOutput' = ko
          /\ karmaDisable' = kd
          /\ IF ~tsconfigExists
             THEN /\ pc' = "failed"
                  /\ effects' = <<first, E("debug:Setup typescript", NoPath),
                                  E("throw:Could not find tsconfig", NoPath)>>
                  /\ UNCHANGED karmaVars
             ELSE /\ pc' = "watching"
                  /\ effects' = <<first, E("debug:Setup typescript", NoPath)>> \o ik.effects
                  /\ startKarmaServer' = ik.start
                  /\ karma' = ik.karma
                  /\ sigintHandler' = ik.sigint
                  /\ UNCHANGED <<timer, karmaStarts>>
    /\ UNCHANGED <<configVars, routerVars, checkVars, publishVars, lintVars, roundVars>>

\* ----- check pipeline (index.ts 476-577) -----------------------------------
CreateProgramMutClearsIntents(outDir) ==
    /\ pc = "watching"
    /\ rounds < MaxRounds
    /\ absBuildDir' = IF outDir # NoPath THEN outDir \o Sep ELSE absBuildDir
    /\ status' = "Running"
    /\ pendingWriteFiles' = << >>
    /\ effects' = <<E("info:Run typescript check", NoPath)>>
    /\ tsPhase' = "checking"
    /\ rounds' = rounds + 1
    /\ roundErr' = FALSE
    /\ roundIntents' = {}
    /\ dupIntent' = FALSE
    /\ UNCHANGED <<pc, configVars, karmaOutput, karmaDisable, routerVars,
                   publishVars, karmaVars, lintVars, lastOk>>

\* host.createProgram (511-520)
CreateProgram(outDir) ==
    /\ pc = "watching"
    /\ rounds < MaxRounds
    /\ absBuildDir' = IF outDir # NoPath THEN outDir \o Sep ELSE absBuildDir
    /\ status' = "Running"
    /\ effects' = <<E("info:Run typescript check", NoPath)>>
    /\ tsPhase' = "checking"
    /\ rounds' = rounds + 1
    /\ roundErr' = FALSE
    /\ roundIntents' = {}
    /\ dupIntent' = FALSE
    /\ UNCHANGED <<pc, configVars, karmaOutput, karmaDisable, routerVars,
                   pendingWriteFiles, publishVars, karmaVars, lintVars, lastOk>>

StatusAfterDiagnosticMutLastWins(st, category) ==
    IF category = ErrorCategory THEN "HasError" ELSE "Running"

\* reportDiagnostic (483-488)
StatusAfterDiagnostic(st, category) ==
    IF category = ErrorCategory THEN "HasError" ELSE st

ReportDiagnostic(category) ==
    /\ pc = "watching"
    /\ status' = StatusAfterDiagnostic(status, category)
    /\ effects' = <<E("console.log:diagnostic", NoPath)>>
    /\ roundErr' = (roundErr \/ category = ErrorCategory)
    /\ UNCHANGED <<pc, configVars, karmaOutput, karmaDisable, routerVars,
                   absBuildDir, pendingWriteFiles, publishVars, karmaVars,
                   lintVars, tsPhase, rounds, roundIntents, dupIntent, lastOk>>

RecordIntentMutAppends(pend, file) == Append(pend, file)

\* pendingWriteFiles[file] = true (557): a key is kept once, in insertion order
RecordIntent(pend, file) ==
    IF file \in Range(pend) THEN pend ELSE Append(pend, file)

WriteFileMutPublishesAtOnce(file) ==
    /\ pc = "watching"
    /\ pendingWriteFiles' = pendingWriteFiles
    /\ jobs' = Append(jobs, [rel |-> ReplaceFirst(file, absBuildDir), stage |-> "get", gen |-> rounds])
    /\ Len(jobs) < MaxJobs
    /\ effects' = <<E("debug:Typescript Hook write", file),
                    E("http.get", ReplaceFirst(file, absBuildDir))>>
    /\ roundIntents' = roundIntents \cup {file}
    /\ dupIntent' = (dupIntent \/ file \in roundIntents)
    /\ UNCHANGED <<pc, configVars, karmaOutput, karmaDisable, routerVars,
                   status, absBuildDir, staged, karmaVars, lintVars,
                   tsPhase, rounds, roundErr, lastOk>>

\* host.writeFile (548-558)
WriteFile(file) ==
    /\ pc = "watching"
    /\ pendingWriteFiles' = RecordIntent(pendingWriteFiles, file)
    /\ effects' = <<E("debug:Typescript Hook write", file)>> \o
                  (IF status = "Done"
                   THEN <<E("error:Unexpected write postponed", file)>>
                   ELSE << >>)
    /\ roundIntents' = roundIntents \cup {file}
    /\ dupIntent' = (dupIntent \/ file \in roundIntents)
    /\ UNCHANGED <<pc, configVars, karmaOutput, karmaDisable, routerVars,
                   status, absBuildDir, publishVars, karmaVars, lintVars,
                   tsPhase, rounds, roundErr, lastOk>>

\* ----- artifact publisher (index.ts 376-410) -------------------------------
\* outputFileForKarma(file) up to the return of http.get: the requests it
\* issues and what it logs
OutputFileForKarma(file, ko, gen) ==
    IF ~ko
    THEN [jobs |-> << >>, effects |-> << >>]
    ELSE [jobs |-> <<[rel |-> file, stage |-> "get", gen |-> gen]>>,
          effects |-> <<E("debug:request from snowpack builder", file),
                        E("http.get", file)>>]

\* ----- lint gate (index.ts 582-619) ----------------------------------------
LintPostsMutForceNeedsOk(m, ok) ==
    IF m = "never" THEN FALSE ELSE ok

\* the executor returned by initEslint(): TRUE when it posts 'run' to the
\* worker, FALSE when it returns Promise.resolve()
LintPosts(m, ok) ==
    IF m = "never" THEN FALSE
    ELSE IF ~ok /\ m = "normal" THEN FALSE
    ELSE TRUE

\* ----- round completion (index.ts 489-498, 561-577, 646-651) ---------------
RoundOkMutAlways(st) == TRUE

RoundOk(st) == st # "HasError"

FlushRunsMutIgnoresOk(ok, ko) == ko

FlushRunsMutIgnoresRoot(ok, ko) == ok

\* flushWrites passes the guard of line 562
FlushRuns(ok, ko) == ~(~ok \/ ~ko)

PendingAfterFlushMutDiscards(pend, ok, ko) == << >>

PendingAfterFlushMutClearsOnFail(pend, ok, ko) == IF ko THEN << >> ELSE pend

PendingAfterFlushMutKeeps(pend, ok, ko) == pend

\* pendingWriteFiles after flushWrites(ok)
PendingAfterFlush(pend, ok, ko) ==
    IF FlushRuns(ok, ko) THEN << >> ELSE pend

RECURSIVE PublishAll(_, _, _, _)
\* the loop of lines 573-576 over todo[i..]
PublishAll(todo, i, dir, gen) ==
    IF i > Len(todo) THEN [jobs |-> << >>, effects |-> << >>]
    ELSE LET one == OutputFileForKarma(ReplaceFirst(todo[i], dir), TRUE, gen)
             rest == PublishAll(todo, i + 1, dir, gen)
         IN [jobs |-> one.jobs \o rest.jobs, effects |-> one.effects \o rest.effects]

\* flushWrites(ok) (561-577): the requests issued and the log
FlushWrites(pend, ok, ko, dir, gen) ==
    IF ~FlushRuns(ok, ko)
    THEN [jobs |-> << >>, effects |-> <<E("debug:Skip output for karma", NoPath)>>]
    ELSE IF Len(pend) = 0
    THEN [jobs |-> << >>, effects |-> <<E("info:No files changed", NoPath)>>]
    ELSE LET all == PublishAll(pend, 1, dir, gen)
         IN [jobs |-> all.jobs,
             effects |-> <<E("info:Write files to Karma-Output", NoPath)>> \o all.effects]

ReportWatchStatusChangedMutAwaitsLint(code) ==
    /\ pc = "watching"
    /\ IF code \in StartCodes
       THEN /\ effects' = <<E("console.info:status", NoPath)>>
            /\ UNCHANGED <<checkVars, publishVars, lintVars, roundVars>>
       ELSE /\ tsPhase = "checking"
            /\ LET ok == RoundOk(status)
                   posts == LintPosts(mode, ok)
                   fl == IF posts THEN [jobs |-> << >>, effects |-> << >>]
                         ELSE FlushWrites(pendingWriteFiles, ok, karmaOutput, absBuildDir, rounds)
               IN /\ Len(jobs) + Len(fl.jobs) <= MaxJobs
                  /\ effects' = <<E("console.info:status", NoPath),
                                  E("debug:Done typescript check", NoPath)>>
                                \o (IF posts THEN <<E("postMessage:run", NoPath)>> ELSE << >>)
                                \o fl.effects
                  /\ promises' = Append(promises, IF posts THEN "pending" ELSE "resolved")
                  /\ nextResolve' = IF posts THEN Len(promises) + 1 ELSE nextResolve
                  /\ toWorker' = IF posts THEN toWorker + 1 ELSE toWorker
                  /\ runResolved' = (runResolved \/ ~posts)
                  /\ pendingWriteFiles' = IF posts THEN pendingWriteFiles
                                          ELSE PendingAfterFlush(pendingWriteFiles, ok, karmaOutput)
                  /\ jobs' = jobs \o fl.jobs
                  /\ tsPhase' = "idle"
                  /\ lastOk' = IF ok THEN "ok" ELSE "failed"
            /\ UNCHANGED <<status, absBuildDir, staged, linting, fromWorker, lintSettled,
                           donesPosted, rounds, roundErr, roundIntents, dupIntent>>
    /\ UNCHANGED <<pc, configVars, karmaOutput, karmaDisable, routerVars, karmaVars>>

ReportWatchStatusChangedMutRunsOnStart(code) ==
    /\ pc = "watching"
    /\ code \in DoneCodes => tsPhase = "checking"
    /\ LET ok == RoundOk(status)
           posts == LintPosts(mode, ok)
           fl == FlushWrites(pendingWriteFiles, ok, karmaOutput, absBuildDir, rounds)
       IN /\ Len(jobs) + Len(fl.jobs) <= MaxJobs
          /\ Len(promises) <= MaxRounds
          /\ effects' = <<E("console.info:status", NoPath),
                          E("debug:Done typescript check", NoPath)>>
                        \o (IF posts THEN <<E("postMessage:run", NoPath)>> ELSE << >>)
                        \o fl.effects
          /\ promises' = Append(promises, IF posts THEN "pending" ELSE "resolved")
          /\ nextResolve' = IF posts THEN Len(promises) + 1 ELSE nextResolve
          /\ toWorker' = IF posts THEN toWorker + 1 ELSE toWorker
          /\ runResolved' = (runResolved \/ ~posts)
          /\ pendingWriteFiles' = PendingAfterFlush(pendingWriteFiles, ok, karmaOutput)
          /\ jobs' = jobs \o fl.jobs
          /\ tsPhase' = "idle"
          /\ lastOk' = IF ok THEN "ok" ELSE "failed"
    /\ UNCHANGED <<status, absBuildDir, staged, linting, fromWorker, lintSettled,
                   donesPosted, rounds, roundErr, roundIntents, dupIntent>>
    /\ UNCHANGED <<pc, configVars, karmaOutput, karmaDisable, routerVars, karmaVars>>

\* reportWatchStatusChanged (489-498) with the finished callback of run()
\* (646-651) and flushWrites.  The continuation after `await` of an already
\* resolved promise is a microtask of the same turn.
ReportWatchStatusChanged(code) ==
    /\ pc = "watching"
    /\ IF code \in StartCodes
       THEN /\ effects' = <<E("console.info:status", NoPath)>>
            /\ UNCHANGED <<checkVars, publishVars, lintVars, roundVars>>
       ELSE /\ tsPhase = "checking"
            /\ LET ok == RoundOk(status)
                   posts == LintPosts(mode, ok)
                   fl == FlushWrites(pendingWriteFiles, ok, karmaOutput, absBuildDir, rounds)
               IN /\ Len(jobs) + Len(fl.jobs) <= MaxJobs
                  /\ effects' = <<E("console.info:status", NoPath),
                                  E("debug:Done typescript check", NoPath)>>
                                \o (IF posts THEN <<E("postMessage:run", NoPath)>> ELSE << >>)
                                \o fl.effects
                  /\ promises' = Append(promises, IF posts THEN "pending" ELSE "resolved")
                  /\ nextResolve' = IF posts THEN Len(promises) + 1 ELSE nextResolve
                  /\ toWorker' = IF posts THEN toWorker + 1 ELSE toWorker
                  /\ runResolved' = (runResolved \/ ~posts)
                  /\ pendingWriteFiles' = PendingAfterFlush(pendingWriteFiles, ok, karmaOutput)
                  /\ jobs' = jobs \o fl.jobs
                  /\ tsPhase' = "idle"
                  /\ lastOk' = IF ok THEN "ok" ELSE "failed"
                  /\ UNCHANGED <<status, absBuildDir, staged, linting, fromWorker,
                                 lintSettled, donesPosted,
                                 rounds, roundErr, roundIntents, dupIntent>>
    /\ UNCHANGED <<pc, configVars, karmaOutput, karmaDisable, routerVars, karmaVars>>

KarmaTriggerMutStaysArmed(start, t) ==
    IF start THEN [start |-> TRUE, timer |-> t + 1]
    ELSE [start |-> start, timer |-> t]

\* startKarmaServer && startKarmaServer() (405) with the function of 429-435:
\* the values of <<startKarmaServer, timer>> after the statement
KarmaTrigger(start, t) ==
    IF start THEN [start |-> FALSE, timer |-> t + 1]
    ELSE [start |-> start, timer |-> t]

SetStage(j, st) == [jobs EXCEPT ![j].stage = st]

HttpResponseMutNoAwait(j, statusCode) ==
    /\ pc = "watching"
    /\ j \in DOMAIN jobs
    /\ jobs[j].stage = "get"
    /\ IF statusCode # 200
       THEN /\ jobs' = SetStage(j, "aborted")
            /\ effects' = <<E("error:Can't generate file for karma", jobs[j].rel)>>
       ELSE /\ jobs' = SetStage(j, "write")
            /\ effects' = <<E("debug:Write for karma", PathJoin(KarmaRoot, jobs[j].rel)),
                            E("fs.mkdir", PathJoin(KarmaRoot, jobs[j].rel)),
                            E("fs.writeFile", PathJoin(KarmaRoot, jobs[j].rel))>>
    /\ UNCHANGED <<pc, configVars, karmaOutput, karmaDisable, routerVars, checkVars,
                   staged, karmaVars, lintVars, roundVars>>

\* the response callback of http.get (381-406) up to the first await; a body
\* is delivered whole with its 'end' event
HttpResponse(j, statusCode) ==
    /\ pc = "watching"
    /\ j \in DOMAIN jobs
    /\ jobs[j].stage = "get"
    /\ IF statusCode # 200
       THEN /\ jobs' = SetStage(j, "aborted")
            /\ effects' = <<E("error:Can't generate file for karma", jobs[j].rel)>>
       ELSE /\ jobs' = SetStage(j, "mkdir")
            /\ effects' = <<E("debug:Write for karma", PathJoin(KarmaRoot, jobs[j].rel)),
                            E("fs.mkdir", PathJoin(KarmaRoot, jobs[j].rel))>>
    /\ UNCHANGED <<pc, configVars, karmaOutput, karmaDisable, routerVars, checkVars,
                   staged, karmaVars, lintVars, roundVars>>

HttpErrorMutUnhandled(j) ==
    /\ pc = "watching"
    /\ j \in DOMAIN jobs
    /\ jobs[j].stage = "get"
    /\ jobs' = SetStage(j, "aborted")
    /\ pc' = "failed"
    /\ effects' = <<E("throw:Unhandled 'error' event", jobs[j].rel)>>
    /\ UNCHANGED <<configVars, karmaOutput, karmaDisable, routerVars, checkVars,
                   staged, karmaVars, lintVars, roundVars>>

\* .on('error') of the request (407-409)
HttpError(j) ==
    /\ pc = "watching"
    /\ j \in DOMAIN jobs
    /\ jobs[j].stage = "get"
    /\ jobs' = SetStage(j, "aborted")
    /\ effects' = <<E("error:Can't request from snowpack-server", jobs[j].rel)>>
    /\ UNCHANGED <<pc, configVars, karmaOutput, karmaDisable, routerVars, checkVars,
                   staged, karmaVars, lintVars, roundVars>>

\* continuation after `await fs.mkdir` (400-405)
MkdirSettled(j, success) ==
    /\ pc = "watching"
    /\ j \in DOMAIN jobs
    /\ jobs[j].stage = "mkdir"
    /\ IF success
       THEN /\ jobs' = SetStage(j, "write")
            /\ effects' = <<E("fs.writeFile", PathJoin(KarmaRoot, jobs[j].rel))>>
            /\ UNCHANGED <<startKarmaServer, timer>>
       ELSE LET k == KarmaTrigger(startKarmaServer, timer)
            IN /\ jobs' = SetStage(j, "writeFailed")
               /\ effects' = <<E("error:Can't write for karma", PathJoin(KarmaRoot, jobs[j].rel))>>
               /\ startKarmaServer' = k.start
               /\ timer' = k.timer
    /\ UNCHANGED <<pc, configVars, karmaOutput, karmaDisable, routerVars, checkVars,
                   staged, karma, karmaStarts, sigintHandler, lintVars, roundVars>>

\* continuation after `await fs.writeFile` (401-405)
WriteSettled(j, success) ==
    /\ pc = "watching"
    /\ j \in DOMAIN jobs
    /\ jobs[j].stage = "write"
    /\ LET k == KarmaTrigger(startKarmaServer, timer)
           file == PathJoin(KarmaRoot, jobs[j].rel)
       IN /\ startKarmaServer' = k.start
          /\ timer' = k.timer
          /\ IF success
             THEN /\ jobs' = SetStage(j, "written")
                  /\ staged' = [f \in DOMAIN staged \cup {file} |->
                                   IF f = file THEN jobs[j].gen ELSE staged[f]]
                  /\ effects' = << >>
             ELSE /\ jobs' = SetStage(j, "writeFailed")
                  /\ staged' = staged
                  /\ effects' = <<E("error:Can't write for karma", file)>>
    /\ UNCHANGED <<pc, configVars, karmaOutput, karmaDisable, routerVars, checkVars,
                   karma, karmaStarts, sigintHandler, lintVars, roundVars>>

TimerFiresMutAfterExit ==
    /\ timer > 0
    /\ timer' = timer - 1
    /\ karma' = "started"
    /\ karmaStarts' = karmaStarts + 1
    /\ effects' = <<E("info:Start Karma", NoPath), E("karma.start", NoPath)>>
    /\ UNCHANGED <<pc, configVars, karmaOutput, karmaDisable, routerVars, checkVars,
                   publishVars, startKarmaServer, sigintHandler, lintVars, roundVars>>

\* the setTimeout callback of startKarmaServer (430-433)
TimerFires ==
    /\ pc = "watching"
    /\ timer > 0
    /\ timer' = timer - 1
    /\ karma' = "started"
    /\ karmaStarts' = karmaStarts + 1
    /\ effects' = <<E("info:Start Karma", NoPath), E("karma.start", NoPath)>>
    /\ UNCHANGED <<pc, configVars, karmaOutput, karmaDisable, routerVars, checkVars,
                   publishVars, startKarmaServer, sigintHandler, lintVars, roundVars>>

\* SIGINT: the handler of 438-442 when installed, node's default otherwise
Sigint ==
    /\ pc = "watching"
    /\ pc' = "exited"
    /\ IF sigintHandler
       THEN /\ karma' = "stopped"
            /\ effects' = <<E("info:Exiting", NoPath), E("karma.stop", NoPath),
                            E("process.exit", NoPath)>>
       ELSE /\ karma' = karma
            /\ effects' = <<E("process.exit", NoPath)>>
    /\ UNCHANGED <<configVars, karmaOutput, karmaDisable, routerVars, checkVars,
                   publishVars, startKarmaServer, timer, karmaStarts, sigintHandler,
                   lintVars, roundVars>>

\* ----- lint worker (eslint.ts 18-36) ---------------------------------------
\* parentPort.on('message') for 'run': lintFiles is started
WorkerRun ==
    /\ pc = "watching"
    /\ toWorker > 0
    /\ toWorker' = toWorker - 1
    /\ linting' = linting + 1
    /\ effects' = << >>
    /\ UNCHANGED <<pc, configVars, karmaOutput, karmaDisable, routerVars, checkVars,
                   publishVars, karmaVars, nextResolve, promises, fromWorker,
                   lintSettled, donesPosted,
                   runResolved, roundVars>>

\* 'done' messages posted once a lintFiles call has settled: .then posts one
\* (29), .catch posts none (30-32)
DonesAfterSettle(n, threw) == IF threw THEN n ELSE n + 1

\* the promise of lintFiles settles: .then (22-29) or .catch (30-32)
WorkerLintSettled(threw) ==
    /\ pc = "watching"
    /\ linting > 0
    /\ linting' = linting - 1
    /\ lintSettled' = lintSettled + 1
    /\ donesPosted' = DonesAfterSettle(donesPosted, threw)
    /\ IF threw
       THEN /\ fromWorker' = fromWorker
            /\ effects' = <<E("worker:error Eslint Failed", NoPath)>>
       ELSE /\ fromWorker' = fromWorker + 1
            /\ effects' = <<E("worker:console.log report", NoPath),
                            E("worker:postMessage done", NoPath)>>
    /\ UNCHANGED <<pc, configVars, karmaOutput, karmaDisable, routerVars, checkVars,
                   publishVars, karmaVars, nextResolve, promises, toWorker,
                   runResolved, roundVars>>

WorkerDoneMutResolvesOldest ==
    /\ pc = "watching"
    /\ fromWorker > 0
    /\ fromWorker' = fromWorker - 1
    /\ LET pend == {i \in DOMAIN promises : promises[i] = "pending"}
       IN IF pend # {}
          THEN /\ promises' = [promises EXCEPT
                                  ![CHOOSE i \in pend : \A k \in pend : i <= k] = "resolved"]
               /\ runResolved' = TRUE
          ELSE UNCHANGED <<promises, runResolved>>
    /\ effects' = << >>
    /\ UNCHANGED <<pc, configVars, karmaOutput, karmaDisable, routerVars, checkVars,
                   publishVars, karmaVars, nextResolve, toWorker, linting,
                   lintSettled, donesPosted, roundVars>>

\* eslintWorker.on('message') (605-609) and the continuation of the finished
\* callback that awaits the resolved promise (647-650)
WorkerDone ==
    /\ pc = "watching"
    /\ fromWorker > 0
    /\ fromWorker' = fromWorker - 1
    /\ IF nextResolve # 0
       THEN /\ promises' = [promises EXCEPT ![nextResolve] = "resolved"]
            /\ runResolved' = TRUE
       ELSE UNCHANGED <<promises, runResolved>>
    /\ effects' = << >>
    /\ UNCHANGED <<pc, configVars, karmaOutput, karmaDisable, routerVars, checkVars,
                   publishVars, karmaVars, nextResolve, toWorker, linting,
                   lintSettled, donesPosted, roundVars>>

\* ts.sys.watchFile (466-468) -> addWatched (352-358)
AddWatched(file, kind) ==
    /\ pc = "watching"
    /\ CountCallbacks(watched, DOMAIN watched) < MaxCallbacks
    /\ watched' = Push(watched, file, [id |-> nextCb, kind |-> kind])
    /\ nextCb' = nextCb + 1
    /\ closed' = closed
    /\ effects' = << >>
    /\ UNCHANGED <<pc, configVars, karmaOutput, karmaDisable, checkVars, publishVars,
                   karmaVars, lintVars, roundVars>>

AfterCloseMutRemoves(w, id) ==
    [f \in DOMAIN w |-> SelectSeq(w[f], LAMBDA cb : cb.id # id)]

\* the map after close() of the handle returned by addWatched (357): the
\* function body is empty
AfterClose(w, id) == w

\* FileWatcher.close() of the handle of callback id
Close(id) ==
    /\ pc = "watching"
    /\ id < nextCb
    /\ id \notin closed
    /\ watched' = AfterClose(watched, id)
    /\ closed' = closed \cup {id}
    /\ effects' = << >>
    /\ UNCHANGED <<pc, configVars, karmaOutput, karmaDisable, nextCb, checkVars,
                   publishVars, karmaVars, lintVars, roundVars>>

\* the onChange hook of the plugin (655-657) -> onChanged (360-370)
OnChanged(file) ==
    /\ pc \in {"loaded", "watching"}
    /\ LET r == Notify(watched, file, nextCb)
       IN /\ watched' = r.watched
          /\ nextCb' = r.nextCb
          /\ closed' = closed
          /\ effects' = <<E("onChange", file)>> \o r.effects
    /\ UNCHANGED <<pc, configVars, karmaOutput, karmaDisable, checkVars, publishVars,
                   karmaVars, lintVars, roundVars>>

\* ----- specifications -------------------------------------------------------
\* The components share no state beyond what the actions below name, so each
\* family of properties is explored with the handlers that can affect it.
\* The watch service runs a round as createProgram, then diagnostics and
\* emits, then the closing status report (tsPhase); diagnostics of the
\* configuration can come outside of a round.

\* check pipeline, lint gate and flush: requests are issued, not yet answered
Next ==
    \/ Run
    \/ \E d \in OutDirOptions : tsPhase = "idle" /\ CreateProgram(d)
    \/ \E c \in Categories : ReportDiagnostic(c)
    \/ \E f \in Files : tsPhase = "checking" /\ WriteFile(f)
    \/ \E c \in StartCodes \cup DoneCodes : ReportWatchStatusChanged(c)

Spec == Init /\ [][Next]_vars

\* publisher and test-server lifecycle: rounds without diagnostics, lint off,
\* tsconfig with an outDir
KarmaInit == Init /\ mode = "never"

KarmaNext ==
    \/ Run
    \/ \E d \in {OutDir} : tsPhase = "idle" /\ CreateProgram(d)
    \/ \E f \in Files : tsPhase = "checking" /\ WriteFile(f)
    \/ \E c \in DoneCodes : ReportWatchStatusChanged(c)
    \/ \E j \in 1..MaxJobs, sc \in {200, 404} : HttpResponse(j, sc)
    \/ \E j \in 1..MaxJobs : HttpError(j)
    \/ \E j \in 1..MaxJobs, b \in BOOLEAN : MkdirSettled(j, b)
    \/ \E j \in 1..MaxJobs, b \in BOOLEAN : WriteSettled(j, b)
    \/ TimerFires
    \/ Sigint

KarmaSpec == KarmaInit /\ [][KarmaNext]_vars

\* lint gate and worker: rounds without write-intents
LintInit == Init /\ isDev /\ tsconfigExists /\ ~karmaOutput /\ ~karmaDisable

LintNext ==
    \/ Run
    \/ \E d \in {NoPath} : tsPhase = "idle" /\ CreateProgram(d)
    \/ \E c \in Categories : ReportDiagnostic(c)
    \/ \E c \in DoneCodes : ReportWatchStatusChanged(c)
    \/ WorkerRun
    \/ \E b \in BOOLEAN : WorkerLintSettled(b)
    \/ WorkerDone

LintSpec == LintInit /\ [][LintNext]_vars

\* start-up under every configuration, with one watched file and one emitted
\* file
StartupNext ==
    \/ Run
    \/ \E f \in {SrcA}, k \in {"ok"} : AddWatched(f, k)
    \/ \E f \in {SrcA} : OnChanged(f)
    \/ \E d \in {OutDir} : tsPhase = "idle" /\ CreateProgram(d)
    \/ \E f \in {FileA} : tsPhase = "checking" /\ WriteFile(f)
    \/ \E c \in DoneCodes : ReportWatchStatusChanged(c)

StartupSpec == Init /\ [][StartupNext]_vars

\* rounds with a flush while the lint worker is busy
OverlapInit ==
    Init /\ isDev /\ tsconfigExists /\ mode # "never" /\ karmaOutput /\ ~karmaDisable

OverlapNext ==
    \/ Run
    \/ \E d \in {OutDir} : tsPhase = "idle" /\ CreateProgram(d)
    \/ \E f \in Files : tsPhase = "checking" /\ WriteFile(f)
    \/ \E c \in DoneCodes : ReportWatchStatusChanged(c)
    \/ WorkerRun
    \/ \E b \in BOOLEAN : WorkerLintSettled(b)
    \/ WorkerDone

OverlapSpec == OverlapInit /\ [][OverlapNext]_vars

\* write-intents at any time, also outside of a round
StrayInit == Init /\ isDev /\ tsconfigExists /\ mode = "never" /\ ~karmaDisable

StrayNext ==
    \/ Run
    \/ \E d \in {OutDir} : tsPhase = "idle" /\ CreateProgram(d)
    \/ \E c \in Categories : tsPhase = "checking" /\ ReportDiagnostic(c)
    \/ \E f \in Files : WriteFile(f)
    \/ \E c \in DoneCodes : ReportWatchStatusChanged(c)

StraySpec == StrayInit /\ [][StrayNext]_vars

\* change router, next to the handlers that move the round state
RouterInit == Init /\ isDev /\ tsconfigExists /\ mode = "never" /\ ~karmaOutput /\ ~karmaDisable

RouterNext ==
    \/ Run
    \/ \E f \in WatchPaths, k \in CallbackKinds : AddWatched(f, k)
    \/ \E f \in WatchPaths : OnChanged(f)
    \/ \E d \in {NoPath} : tsPhase = "idle" /\ CreateProgram(d)
    \/ \E c \in Categories : ReportDiagnostic(c)
    \/ \E f \in Files : tsPhase = "checking" /\ WriteFile(f)

RouterSpec == RouterInit /\ [][RouterNext]_vars

\* watch registrations, their handles and change notifications
HandleNext ==
    \/ Run
    \/ \E f \in WatchPaths, k \in CallbackKinds : AddWatched(f, k)
    \/ \E f \in WatchPaths : OnChanged(f)
    \/ \E id \in 1..MaxCallbacks : Close(id)

HandleSpec == RouterInit /\ [][HandleNext]_vars

\* ----- properties ------------------------------------------------------------
HasEffect(es, k) == \E i \in DOMAIN es : es[i].k = k
CountEffect(es, e) == Cardinality({i \in DOMAIN es : es[i] = e})

\* the last handler was the report that closes a round / a round start /
\* a write-intent / a change notification
IsCompletion(es) == HasEffect(es, "debug:Done typescript check")
IsRoundStart(es) == HasEffect(es, "info:Run typescript check")
IsWriteIntent(es) == HasEffect(es, "debug:Typescript Hook write")
IsNotify(es) == HasEffect(es, "onChange")

\* C1: a round with an error diagnostic between its start and its completion
\* publishes no file at completion and, with lint policy 'normal', sends no
\* run request to the lint worker.
C1_ErrorRoundPublishesNothing ==
    (IsCompletion(effects) /\ roundErr) =>
        /\ ~HasEffect(effects, "http.get")
        /\ mode = "normal" => ~HasEffect(effects, "postMessage:run")

C1_Witness ==
    /\ IsCompletion(effects) /\ roundErr /\ mode = "normal"
    /\ karmaOutput /\ Len(pendingWriteFiles) > 0 /\ roundIntents # {}

\* C2: a round without error diagnostics, with a staging root, hands every
\* distinct path written during the round to the publisher exactly once at
\* completion, however often the path was written.
C2_EachIntentPublishedOnce ==
    (IsCompletion(effects) /\ ~roundErr /\ karmaOutput) =>
        \A f \in roundIntents :
            CountEffect(effects, E("http.get", ReplaceFirst(f, absBuildDir))) = 1

C2_Witness ==
    /\ IsCompletion(effects) /\ ~roundErr /\ karmaOutput
    /\ roundIntents = Files /\ dupIntent
    /\ Len(jobs) = 2

\* C3: a write-intent is only recorded; requests to the dev server are
\* issued by the completion of a round and by nothing else.
C3_PublishOnlyAtCompletion ==
    [][/\ IsWriteIntent(effects') =>
            (jobs' = jobs /\ staged' = staged /\ ~HasEffect(effects', "http.get"))
       /\ (Len(jobs') > Len(jobs) \/ HasEffect(effects', "http.get")) =>
            IsCompletion(effects')]_vars

C3_Witness ==
    /\ IsWriteIntent(effects) /\ status = "Running" /\ karmaOutput
    /\ Len(pendingWriteFiles) = 2 /\ jobs = << >>

\* C4 as stated: the start of a round resets the error flag and empties the
\* set of buffered write-intents.
C4_RoundStartEmptiesIntents ==
    IsRoundStart(effects) => (status = "Running" /\ pendingWriteFiles = << >>)

\* C4 amended: the start of a round resets the error flag and leaves the
\* buffered write-intents as they are.
C4_RoundStartResetsFlagOnly ==
    [][IsRoundStart(effects') =>
        (status' = "Running" /\ ~roundErr' /\ pendingWriteFiles' = pendingWriteFiles)]_vars

C4_Witness ==
    /\ IsRoundStart(effects) /\ lastOk = "failed" /\ status = "Running"
    /\ Len(pendingWriteFiles) > 0

\* C5 as stated: after a round completed with ok = false the set of buffered
\* write-intents is empty.
C5_FailedRoundDiscardsIntents ==
    (IsCompletion(effects) /\ lastOk = "failed") => pendingWriteFiles = << >>

\* C5 amended: a round that completes with ok = false logs the skip notice,
\* issues no request and keeps the buffered write-intents.
C5_FailedRoundKeepsIntents ==
    [][(IsCompletion(effects') /\ lastOk' = "failed") =>
        /\ HasEffect(effects', "debug:Skip output for karma")
        /\ jobs' = jobs
        /\ pendingWriteFiles' = pendingWriteFiles]_vars

C5_Witness ==
    /\ IsCompletion(effects) /\ lastOk = "failed" /\ karmaOutput
    /\ Len(pendingWriteFiles) > 0

\* C6: the lint policy decides whether the executor posts a run request:
\* never with 'never', always with 'force', exactly when ok with 'normal';
\* when it posts nothing the promise it returns is already resolved.
C6_LintPolicy ==
    /\ mode = "never" => (toWorker = 0 /\ \A i \in DOMAIN promises : promises[i] = "resolved")
    /\ IsCompletion(effects) =>
        LET posted == HasEffect(effects, "postMessage:run")
            returned == promises[Len(promises)]
        IN /\ mode = "never" => ~posted
           /\ mode = "force" => posted
           /\ mode = "normal" => (posted <=> lastOk = "ok")
           /\ posted => (returned = "pending" /\ nextResolve = Len(promises) /\ toWorker >= 1)
           /\ ~posted => returned = "resolved"

C6_Witness ==
    /\ IsCompletion(effects) /\ mode = "force" /\ lastOk = "failed"
    /\ HasEffect(effects, "postMessage:run")

\* C7: karma.start() is called at most once: however many publishes trigger
\* the start, one timer is armed and it starts the server once.
Triggers == Cardinality({j \in DOMAIN jobs : jobs[j].stage \in {"written", "writeFailed"}})

C7_StartAtMostOnce ==
    /\ karmaStarts + timer <= 1
    /\ (Triggers >= 1 /\ sigintHandler) => karmaStarts + timer = 1
    /\ Triggers = 0 => karmaStarts + timer = 0

C7_Witness ==
    Triggers >= 2 /\ karmaStarts = 1 /\ timer = 0 /\ ~startKarmaServer

\* C8: the start of the test server is armed only once some artifact has
\* been written to the staging directory.
C8_StartOnlyAfterWrite ==
    (timer > 0 \/ karmaStarts > 0) => \E j \in DOMAIN jobs : jobs[j].stage = "written"

\* C9: a notification calls the callbacks registered for the path once each,
\* in registration order, and a callback that throws is logged and does not
\* stop the ones after it.
Invoked(es) == SelectSeq(es, LAMBDA e : e.k = "callback")

C9_NotifyCallsAllInOrder ==
    [][IsNotify(effects') =>
        LET f == effects'[1].a
            pre == IF f \in DOMAIN watched THEN watched[f] ELSE << >>
            post == IF f \in DOMAIN watched' THEN watched'[f] ELSE << >>
            inv == Invoked(effects')
            throwers == {i \in DOMAIN post : post[i].kind = "throws"}
        IN /\ Len(inv) >= Len(pre)
           /\ \A i \in DOMAIN pre : inv[i].cb = pre[i].id /\ inv[i].a = f
           /\ Len(inv) = Len(post)
           /\ \A i \in DOMAIN post : inv[i].cb = post[i].id
           /\ \A i, j \in DOMAIN inv : inv[i].cb = inv[j].cb => i = j
           /\ CountEffect(effects', E("error:Failed to execute typescript-watcher", f))
                = Cardinality(throwers)]_vars

C9_Witness ==
    /\ IsNotify(effects)
    /\ LET f == effects[1].a
       IN /\ f \in DOMAIN watched
          /\ Len(watched[f]) >= 2
          /\ watched[f][1].kind = "throws"
          /\ Len(Invoked(effects)) = Len(watched[f])
          /\ HasEffect(effects, "error:Failed to execute typescript-watcher")

\* C10: a notification for a path without registration calls no callback,
\* logs nothing and changes neither the watch map nor the round state nor
\* the buffered write-intents.
C10_NotifyUnregisteredIsNoOp ==
    [][(IsNotify(effects') /\ effects'[1].a \notin DOMAIN watched) =>
        /\ effects' = <<E("onChange", effects'[1].a)>>
        /\ UNCHANGED <<watched, nextCb, status, absBuildDir, pendingWriteFiles,
                       jobs, staged, tsPhase, rounds, roundErr, roundIntents>>]_vars

C10_Witness ==
    /\ IsNotify(effects) /\ effects[1].a \notin DOMAIN watched
    /\ DOMAIN watched # {} /\ status = "HasError" /\ Len(pendingWriteFiles) > 0

\* C11: every run request the worker has finished with was answered by one
\* 'done' message, whether lintFiles resolved or threw.
C11_EveryRunAnsweredOnce ==
    donesPosted = lintSettled

\* C12: at most one run request is outstanding at the worker: none is sent
\* while an earlier one has not signalled completion.
C12_OneLintOutstanding ==
    toWorker + linting <= 1

\* C16: the promise returned by run() is resolved only once the first round
\* has completed and its lint invocation has finished or was skipped.
C16_RunResolvesAfterFirstLint ==
    runResolved =>
        /\ Len(promises) >= 1
        /\ promises[1] = "resolved" \/ lintSettled >= 1

\* C13: a publish that fails (status other than 200, network error, mkdir or
\* write failure) logs an error naming its path, writes no staging file,
\* leaves the process running and leaves every other publish untouched.
FailedStages == {"aborted", "writeFailed"}
PublishErrors == {"error:Can't generate file for karma",
                  "error:Can't request from snowpack-server",
                  "error:Can't write for karma"}

C13_PublishFailureConfined ==
    [][\A j \in DOMAIN jobs :
        /\ (jobs[j].stage \notin FailedStages /\ jobs'[j].stage \in FailedStages) =>
              /\ pc' = pc
              /\ staged' = staged
              /\ \E i \in DOMAIN effects' :
                    /\ effects'[i].k \in PublishErrors
                    /\ effects'[i].a \in {jobs[j].rel, PathJoin(KarmaRoot, jobs[j].rel)}
              /\ \A k \in DOMAIN jobs \ {j} : jobs'[k] = jobs[k]
        /\ jobs[j].stage \in FailedStages => jobs'[j] = jobs[j]]_vars

C13_Witness ==
    \E j, k \in DOMAIN jobs :
        /\ jobs[j].stage = "aborted" /\ jobs[k].stage = "written"
        /\ jobs[j].gen = jobs[k].gen /\ jobs[j].rel # jobs[k].rel
        /\ PathJoin(KarmaRoot, jobs[j].rel) \notin DOMAIN staged
        /\ PathJoin(KarmaRoot, jobs[k].rel) \in DOMAIN staged
        /\ pc = "watching"

\* C14: without a staging root nothing is published: no request is issued,
\* no file is written, no error is logged and the start of the test server
\* is never triggered.
ErrorKinds == PublishErrors \cup {"error:Unexpected write postponed",
                                  "error:Failed to execute typescript-watcher"}

C14_NoStagingRootNoPublish ==
    ~karmaOutput =>
        /\ jobs = << >> /\ staged = << >>
        /\ timer = 0 /\ karmaStarts = 0 /\ ~startKarmaServer
        /\ \A i \in DOMAIN effects :
              effects[i].k \notin ErrorKinds \cup {"http.get", "fs.mkdir", "fs.writeFile"}

C14_Witness ==
    /\ ~karmaOutput /\ isDev /\ IsCompletion(effects) /\ lastOk = "ok"
    /\ Len(pendingWriteFiles) = 2

\* C15: without a staging root, with karmaDisable, or in build mode, initKarma
\* logs the 'disabled' notice, installs neither the SIGINT handler nor the
\* deferred start, and the test server is never started.
KarmaOff == ~karmaOutput \/ karmaDisable \/ ~isDev
IsRun(es) == HasEffect(es, "debug:Setup typescript")

C15_DisabledNeverStarts ==
    KarmaOff =>
        /\ ~sigintHandler /\ ~startKarmaServer /\ karma = "none"
        /\ timer = 0 /\ karmaStarts = 0
        /\ (IsRun(effects) /\ pc = "watching") => HasEffect(effects, "info:Karma Disabled")

C15_Witness ==
    /\ karmaOutput /\ karmaDisable /\ isDev
    /\ \E j \in DOMAIN jobs : jobs[j].stage = "written"
    /\ karmaStarts = 0 /\ timer = 0 /\ ~sigintHandler

\* C17: with the tsconfig file missing, run() throws in initTypescript and
\* watch mode is never entered: no round starts, no watch callback is
\* registered, the finished callback is never called and nothing is published.
C17_MissingTsconfigIsFatal ==
    ~tsconfigExists =>
        /\ pc \in {"loaded", "failed"}
        /\ rounds = 0 /\ status = "Done" /\ tsPhase = "idle"
        /\ DOMAIN watched = {}
        /\ promises = << >> /\ lastOk = "none" /\ ~runResolved
        /\ jobs = << >> /\ pendingWriteFiles = << >>
        /\ karma = "none" /\ ~sigintHandler
        /\ IsRun(effects) =>
              (pc = "failed" /\ HasEffect(effects, "throw:Could not find tsconfig"))

C17_Witness ==
    /\ ~tsconfigExists /\ pc = "failed" /\ isDev /\ karmaOutput /\ ~karmaDisable
    /\ HasEffect(effects, "throw:Could not find tsconfig")

\* C19: a round that completes with ok = true, intents {out/a, out/b}, output
\* directory out/ and a staging root issues exactly two fetches, for a and b
\* (the intents without the output-directory prefix); a fetched file is
\* written under the staging root at the same relative path, and the first
\* successful write arms the test server.
Fetches(es) == SelectSeq(es, LAMBDA e : e.k = "http.get")
RelA == <<"a">>
RelB == <<"b">>
StagedA == <<"/", "r", "/", "t", "/", "a">>
StagedB == <<"/", "r", "/", "t", "/", "b">>
StagedFor(rel) == IF rel = RelA THEN StagedA ELSE IF rel = RelB THEN StagedB ELSE NoPath
NoWriteSettledYet == \A k \in DOMAIN jobs : jobs[k].stage \notin {"written", "writeFailed"}

C19_PublishMirrorsRelativePath ==
    [][/\ ( /\ IsCompletion(effects') /\ lastOk' = "ok" /\ rounds' = rounds
            /\ karmaOutput /\ Range(pendingWriteFiles) = Files
            /\ absBuildDir = OutDir \o Sep )
          => /\ Len(Fetches(effects')) = 2
             /\ {Fetches(effects')[i].a : i \in 1..2} = {RelA, RelB}
             /\ Len(jobs') = Len(jobs) + 2
             /\ {jobs'[k].rel : k \in (DOMAIN jobs') \ (DOMAIN jobs)} = {RelA, RelB}
       /\ \A j \in DOMAIN jobs :
            (jobs[j].stage = "write" /\ jobs'[j].stage = "written") =>
               /\ jobs[j].rel \in {RelA, RelB}
               /\ StagedFor(jobs[j].rel) \in DOMAIN staged'
               /\ DOMAIN staged' = DOMAIN staged \cup {StagedFor(jobs[j].rel)}
               /\ (NoWriteSettledYet /\ sigintHandler) =>
                     (startKarmaServer /\ ~startKarmaServer' /\ timer' = timer + 1)
               /\ ~NoWriteSettledYet => timer' = timer]_vars

C19_Witness ==
    /\ Len(jobs) = 2 /\ jobs[1].gen = jobs[2].gen
    /\ jobs[1].rel = RelA /\ jobs[2].rel = RelB
    /\ jobs[1].stage = "written" /\ jobs[2].stage = "written"
    /\ DOMAIN staged = {StagedA, StagedB}
    /\ sigintHandler /\ ~startKarmaServer /\ timer = 1 /\ karma = "created"

\* C20: the test server only moves NotStarted -> Armed -> Running -> Stopped.
\* The interrupt signal stops the server and then ends the process, and
\* nothing is started afterwards, also when the settle timer is still pending.
Lifecycle(k, t) ==
    IF k = "stopped" THEN "Stopped"
    ELSE IF k = "started" THEN "Running"
    ELSE IF t > 0 THEN "Armed"
    ELSE "NotStarted"
Rank(l) ==
    CASE l = "NotStarted" -> 0
      [] l = "Armed" -> 1
      [] l = "Running" -> 2
      [] l = "Stopped" -> 3
Before(es, k1, k2) ==
    \E i, j \in DOMAIN es : i < j /\ es[i].k = k1 /\ es[j].k = k2

C20_LifecycleForwardOnly ==
    [][LET old == Lifecycle(karma, timer)
           new == Lifecycle(karma', timer')
       IN /\ Rank(new) >= Rank(old)
          /\ (new = "Armed" /\ old # "Armed") => old = "NotStarted"
          /\ (new = "Running" /\ old # "Running") => old = "Armed"
          /\ (pc = "watching" /\ pc' = "exited" /\ sigintHandler) =>
                /\ new = "Stopped"
                /\ Before(effects', "karma.stop", "process.exit")
                /\ ~HasEffect(effects', "karma.start")
                /\ karmaStarts' = karmaStarts
          /\ old = "Stopped" => pc = "exited"
          /\ pc = "exited" => vars' = vars]_vars

C20_Witness ==
    /\ pc = "exited" /\ karma = "stopped" /\ sigintHandler
    /\ timer = 1 /\ karmaStarts = 0
    /\ HasEffect(effects, "karma.stop")

\* C21: after every round completion, with or without errors, and until the
\* next round start the check state is Done (idle), neither Running nor
\* HasError.
C21_IdleAfterCompletion ==
    (tsPhase = "idle" /\ lastOk # "none") => status = "Done"

\* C22: a write-intent that arrives while no round is running, before the
\* first round start or between a completion and the next round start, is
\* logged as an error and the process goes on.
C22_StrayWriteIsLogged ==
    [][(IsWriteIntent(effects') /\ tsPhase = "idle") =>
        /\ HasEffect(effects', "error:Unexpected write postponed")
        /\ pc' = "watching"]_vars

\* C23: once an error diagnostic was reported in a round, the round stays
\* HasError under every further diagnostic and write-intent until it
\* completes, and the completion passes ok = false.
C23_ErrorFlagSticks ==
    [][(tsPhase = "checking" /\ status = "HasError") =>
        /\ status' = "HasError"
        /\ IsCompletion(effects') =>
              (lastOk' = "failed" /\ (mode = "normal" => ~HasEffect(effects', "postMessage:run")))]_vars

C23_Witness ==
    /\ IsWriteIntent(effects) /\ tsPhase = "checking"
    /\ roundErr /\ status = "HasError" /\ rounds = 2

\* C24: at a round completion the finished callback gets ok = !hasError
\* before the flush and both use the same ok: a run request to the lint
\* worker comes before the first fetch of the flush, and fetches are issued
\* only if ok.
C24_CallbackBeforeFlushSameOk ==
    [][IsCompletion(effects') =>
        LET ok == status # "HasError"
            posts == {i \in DOMAIN effects' : effects'[i].k = "postMessage:run"}
            gets == {i \in DOMAIN effects' : effects'[i].k = "http.get"}
        IN /\ lastOk' = (IF ok THEN "ok" ELSE "failed")
           /\ Len(promises') = Len(promises) + 1
           /\ Cardinality(posts) <= 1
           /\ mode = "normal" => (posts # {} <=> ok)
           /\ \A i \in posts, j \in gets : i < j
           /\ gets # {} => ok
           /\ (ok /\ karmaOutput) => (pendingWriteFiles' = << >>
                                      /\ Cardinality(gets) = Len(pendingWriteFiles))
           /\ ~ok => HasEffect(effects', "debug:Skip output for karma")]_vars

C24_Witness ==
    /\ IsCompletion(effects) /\ lastOk = "ok" /\ mode = "normal"
    /\ \E i, j \in DOMAIN effects :
          i < j /\ effects[i].k = "postMessage:run" /\ effects[j].k = "http.get"

\* C25: a flush is one step with respect to the rounds: it takes the whole
\* set of buffered intents, empties it and issues every fetch before any
\* event of the next round is handled, so an intent of round N+1 is neither
\* lost to nor part of the flush of round N.
Flushes(es) == HasEffect(es, "info:Write files to Karma-Output")
FetchOf(f, dir) == E("http.get", ReplaceFirst(f, dir))

C25_FlushIsAtomic ==
    [][/\ (IsCompletion(effects') /\ status # "HasError" /\ karmaOutput) =>
            /\ pendingWriteFiles' = << >>
            /\ Len(jobs') = Len(jobs) + Len(pendingWriteFiles)
            /\ \A f \in Range(pendingWriteFiles) :
                  CountEffect(effects', FetchOf(f, absBuildDir)) = 1
            /\ \A k \in (DOMAIN jobs') \ (DOMAIN jobs) :
                  /\ jobs'[k].gen = rounds /\ jobs'[k].stage = "get"
                  /\ \E f \in Range(pendingWriteFiles) :
                        jobs'[k].rel = ReplaceFirst(f, absBuildDir)
       /\ \A f \in Range(pendingWriteFiles) :
            \/ f \in Range(pendingWriteFiles')
            \/ (Flushes(effects') /\ HasEffect(effects', "http.get")
                  /\ CountEffect(effects', FetchOf(f, absBuildDir)) = 1)
       /\ \A k \in DOMAIN jobs : k \in DOMAIN jobs' /\ jobs'[k].gen = jobs[k].gen
       /\ IsWriteIntent(effects') =>
            (jobs' = jobs /\ effects'[1].a \in Range(pendingWriteFiles'))]_vars

C25_Witness ==
    /\ IsCompletion(effects) /\ Flushes(effects) /\ rounds = 2
    /\ Len(jobs) = 3 /\ pendingWriteFiles = << >>
    /\ jobs[1].gen = 1 /\ jobs[2].gen = 1 /\ jobs[3].gen = 2

\* C26: the lint gate is called exactly once for every completed round: each
\* closing status report makes one call, and a round-start status report
\* makes none.
CompletedRounds == IF tsPhase = "checking" THEN rounds - 1 ELSE rounds
IsStatusOnly(es) == es = <<E("console.info:status", NoPath)>>

C26_OneLintCallPerRound ==
    [][/\ Len(promises) = CompletedRounds
       /\ IsCompletion(effects') =>
            (Len(promises') = Len(promises) + 1 /\ toWorker' <= toWorker + 1)
       /\ ~IsCompletion(effects') =>
            (Len(promises') = Len(promises) /\ toWorker' <= toWorker
             /\ ~HasEffect(effects', "postMessage:run"))
       /\ IsStatusOnly(effects') =>
            (promises' = promises /\ nextResolve' = nextResolve /\ jobs' = jobs)]_vars

C26_Witness ==
    /\ IsStatusOnly(effects) /\ rounds = 2 /\ tsPhase = "idle"
    /\ Len(promises) = 2 /\ mode = "force"

\* C27: a lint run in progress delays neither the publishing nor the next
\* round: the flush of a round is issued in the completion itself, while the
\* promise of that round's lint is still pending, and the steps of the worker
\* leave the round state, the intents and the publishes untouched.
WorkerBusy == toWorker + linting > 0

C27_LintNeverDelaysFlush ==
    [][/\ (IsCompletion(effects') /\ status # "HasError") =>
            /\ Len(Fetches(effects')) = Len(pendingWriteFiles)
            /\ pendingWriteFiles' = << >>
            /\ HasEffect(effects', "postMessage:run") =>
                  (promises'[Len(promises')] = "pending" /\ WorkerBusy')
       /\ (toWorker' < toWorker \/ linting' < linting \/ fromWorker' < fromWorker) =>
            UNCHANGED <<checkVars, publishVars, tsPhase, rounds, roundIntents, lastOk>>]_vars

C27_Witness ==
    /\ IsCompletion(effects) /\ rounds = 2 /\ lastOk = "ok"
    /\ Len(Fetches(effects)) >= 1
    /\ linting = 1 /\ lintSettled = 0 /\ toWorker = 1
    /\ \E j \in DOMAIN jobs : jobs[j].gen = 1

\* C28: a lint invocation made while an earlier one is pending overwrites the
\* one resolver slot: the earlier promise is never resolved, and the first
\* 'done' message of the worker resolves the later promise.
C28_OverlapLosesEarlierSignal ==
    [][/\ \A i \in DOMAIN promises :
            (promises[i] = "pending" /\ i # nextResolve) => promises'[i] = "pending"
       /\ (IsCompletion(effects') /\ HasEffect(effects', "postMessage:run")) =>
            nextResolve' = Len(promises')
       /\ fromWorker' < fromWorker =>
            /\ nextResolve' = nextResolve
            /\ \A i \in DOMAIN promises :
                  promises'[i] = (IF i = nextResolve THEN "resolved" ELSE promises[i])]_vars

C28_Witness ==
    /\ Len(promises) = 2 /\ promises[1] = "pending" /\ promises[2] = "resolved"
    /\ nextResolve = 2 /\ donesPosted = 1 /\ fromWorker = 0 /\ linting = 1

\* C29: the watch map only grows at the end of its lists: a registration for
\* a path that has callbacks is appended after them, no operation removes or
\* reorders a callback, closing a handle included, and a callback whose
\* handle was closed is still called by a notification.
IsPrefix(a, b) == Len(a) <= Len(b) /\ SubSeq(b, 1, Len(a)) = a

C29_WatchMapAppendOnly ==
    [][/\ \A f \in DOMAIN watched :
            f \in DOMAIN watched' /\ IsPrefix(watched[f], watched'[f])
       /\ closed' # closed => watched' = watched
       /\ IsNotify(effects') =>
            LET f == effects'[1].a
            IN f \in DOMAIN watched =>
                 \A i \in DOMAIN watched[f] :
                    \E e \in Range(Invoked(effects')) : e.cb = watched[f][i].id]_vars

C29_Witness ==
    /\ IsNotify(effects)
    /\ \E f \in DOMAIN watched :
          /\ Len(watched[f]) >= 2
          /\ watched[f][1].id \in closed
          /\ Len(Invoked(effects)) >= 2
          /\ Invoked(effects)[1].cb = watched[f][1].id
          /\ Invoked(effects)[1].a = f

\* C30: within one publish fs.mkdir has completed before fs.writeFile is
\* called, while publishes of different files of one flush proceed
\* independently, in any order.
StageOrder == {<<"get", "mkdir">>, <<"get", "aborted">>, <<"mkdir", "write">>,
               <<"mkdir", "writeFailed">>, <<"write", "written">>,
               <<"write", "writeFailed">>}
Moved(j, from, to) ==
    j \in DOMAIN jobs /\ jobs[j].stage = from /\ jobs'[j].stage = to

C30_MkdirBeforeWrite ==
    [][/\ \A j \in DOMAIN jobs :
            /\ jobs'[j].stage # jobs[j].stage =>
                  (<<jobs[j].stage, jobs'[j].stage>> \in StageOrder
                   /\ \A k \in DOMAIN jobs \ {j} : jobs'[k] = jobs[k])
            /\ Moved(j, "get", "mkdir") =>
                  (HasEffect(effects', "fs.mkdir") /\ ~HasEffect(effects', "fs.writeFile"))
            /\ Moved(j, "mkdir", "write") =>
                  effects' = <<E("fs.writeFile", PathJoin(KarmaRoot, jobs[j].rel))>>
       /\ HasEffect(effects', "fs.writeFile") =>
            \E j \in DOMAIN jobs : Moved(j, "mkdir", "write")
       /\ HasEffect(effects', "fs.mkdir") =>
            \E j \in DOMAIN jobs : Moved(j, "get", "mkdir")]_vars

C30_Witness ==
    \E j, k \in DOMAIN jobs :
        /\ j < k /\ jobs[j].gen = jobs[k].gen
        /\ jobs[j].stage = "mkdir" /\ jobs[k].stage = "written"
        /\ PathJoin(KarmaRoot, jobs[k].rel) \in DOMAIN staged
        /\ PathJoin(KarmaRoot, jobs[j].rel) \notin DOMAIN staged

\* C31: with a staging root, write-intents recorded in a round that completed
\* with errors stay buffered and are handed to the publisher by the next
\* completion without errors, so a recorded intent leaves the buffer only by
\* being published.
Carried == Range(pendingWriteFiles) \ roundIntents

C31_FailedRoundIntentsPublishedLater ==
    [][karmaOutput =>
        /\ \A f \in Range(pendingWriteFiles) :
              \/ f \in Range(pendingWriteFiles')
              \/ /\ IsCompletion(effects') /\ lastOk' = "ok"
                 /\ CountEffect(effects', FetchOf(f, absBuildDir)) = 1
                 /\ \E k \in (DOMAIN jobs') \ (DOMAIN jobs) :
                       jobs'[k].rel = ReplaceFirst(f, absBuildDir)
        /\ (IsCompletion(effects') /\ lastOk' = "failed") =>
              (Range(pendingWriteFiles') = Range(pendingWriteFiles) /\ jobs' = jobs)
        /\ (IsCompletion(effects') /\ lastOk' = "ok") =>
              (Len(Fetches(effects')) = Len(pendingWriteFiles) /\ Carried' = {})
        /\ roundIntents' \subseteq
              Range(pendingWriteFiles') \cup
              {f \in Files : \E k \in DOMAIN jobs' :
                  jobs'[k].gen = rounds' /\ jobs'[k].rel = ReplaceFirst(f, absBuildDir')}]_vars

C31_Witness ==
    /\ IsCompletion(effects) /\ lastOk = "ok" /\ karmaOutput /\ rounds = 2
    /\ roundIntents = {} /\ ~roundErr
    /\ Len(Fetches(effects)) = 2 /\ Len(jobs) = 2
    /\ jobs[1].gen = 2 /\ jobs[2].gen = 2

\* C32: when two rounds publish the same path, then once no publish is in
\* flight the staged file holds what the later round's publish wrote: the
\* write of an earlier round never replaces the result of a later round.
InFlight == {j \in DOMAIN jobs : jobs[j].stage \in {"get", "mkdir", "write"}}

C32_LaterRoundWins ==
    InFlight = {} =>
        \A j \in DOMAIN jobs :
            jobs[j].stage = "written" =>
                staged[PathJoin(KarmaRoot, jobs[j].rel)] >= jobs[j].gen

\* C33: a notification ends after it has called exactly the callbacks that
\* were registered for the path when it began; a callback registered for the
\* same path during the notification is not called by that notification.
C33_NotifyCallsSnapshot ==
    [][IsNotify(effects') =>
        LET f == effects'[1].a
            pre == IF f \in DOMAIN watched THEN watched[f] ELSE << >>
        IN /\ Len(Invoked(effects')) = Len(pre)
           /\ \A i \in DOMAIN pre : Invoked(effects')[i].cb = pre[i].id]_vars

====
